---- MODULE Spec2Model ----
(***************************************************************************)
(* Log storage of toydb: the Store contract (storage/log/mod.rs), the      *)
(* in-memory backend (storage/log/memory.rs) and the durable Hybrid        *)
(* backend (storage/log/hybrid.rs).                                        *)
(*                                                                         *)
(* A store is driven by a single caller that appends, commits, truncates   *)
(* and sets metadata; the Hybrid store can also be reopened on the same    *)
(* directory.  get, scan, len, committed, size and get_metadata take       *)
(* &self and are operators over the state.                                 *)
(***************************************************************************)
EXTENDS Integers, Sequences, FiniteSets, TLC

\* Bound on the number of entries the caller puts in a log.
MaxLog == 3

\* The payloads the caller appends: empty, one byte, two bytes.
EntryPool == { <<>>, <<1>>, <<2, 3>> }

\* Metadata keys and values the caller uses.
MetaKeys == { <<1>>, <<2>> }
MetaVals == { <<>>, <<9>> }

\* Indexes the caller passes to commit, truncate and get, and as range bounds.
Indexes == 0 .. (MaxLog + 1)

Min(a, b) == IF a < b THEN a ELSE b
Max(a, b) == IF a > b THEN a ELSE b

\* Result<Option<Vec<u8>>> of get: Ok(Some(v)), Ok(None), Err(_).
OkSome(v) == [ok |-> TRUE, some |-> TRUE, val |-> v]
OkNone == [ok |-> TRUE, some |-> FALSE, val |-> <<>>]
ErrGet == [ok |-> FALSE, some |-> FALSE, val |-> <<>>]

\* Result<Vec<u8>>, the item of a Scan.
OkItem(v) == [ok |-> TRUE, val |-> v]
ErrItem == [ok |-> FALSE, val |-> <<>>]

\* Iterator::map(Ok) over a sequence of entries.
MapOk(s) == [k \in 1 .. Len(s) |-> OkItem(s[k])]

\* Iterator::take(n) and Iterator::skip(n).
Take(s, n) == SubSeq(s, 1, Min(n, Len(s)))
Skip(s, n) == SubSeq(s, Min(n, Len(s)) + 1, Len(s))

\* A scan range: start and end bound, each Included(n), Excluded(n) or Unbounded.
BoundKinds == { "Included", "Excluded", "Unbounded" }
Bounds == { [kind |-> "Unbounded", n |-> 0] }
            \cup { [kind |-> k, n |-> n] : k \in { "Included", "Excluded" }, n \in Indexes }
Ranges == [start : Bounds, end : Bounds]

\* u64::MAX, scaled to the model: a number above every index and every length of a
\* store of MaxLog entries.  usize has the width of u64.
U64Max == MaxLog + 4

\* The ranges above and those with u64::MAX in a bound.
WideBounds == Bounds \cup { [kind |-> k, n |-> U64Max] : k \in { "Included", "Excluded" } }
WideRanges == [start : WideBounds, end : WideBounds]

\* A scan that did not return: the thread panicked.
ScanPanic == << [ok |-> FALSE, val |-> <<>>, panic |-> TRUE] >>

\* u32::MAX, scaled to the model: the entries of EntryPool are shorter, WideEntry is
\* longer by one byte.
U32Max == 3

\* The cast "as u32" of a length: the bits that do not fit are dropped.
AsU32(n) == n % (U32Max + 1)

\* An entry one byte longer than a u32 can count.
WideEntry == [k \in 1 .. (U32Max + 1) |-> 7]

VARIABLES
    backend,           \* which Store implementation the caller set up
    m_log,             \* Memory.log
    m_committed,       \* Memory.committed
    m_metadata,        \* Memory.metadata
    h_open,            \* whether Hybrid::new produced a store
    h_file,            \* bytes of the file raft-log
    h_index,           \* Hybrid.index: entry index -> <<position, size>>
    h_uncommitted,     \* Hybrid.uncommitted
    h_metadata,        \* Hybrid.metadata
    h_metadata_file,   \* bytes of the file raft-metadata
    h_sync,            \* Hybrid.sync
    h_disk,            \* bytes of raft-log that are on stable storage
    h_lock,            \* who holds the Mutex of Hybrid.file
    w_commit,          \* the locals of a commit in progress
    r_get,             \* the locals of a get in progress
    r_scan,            \* the Scan iterator that is alive
    last,              \* the last call of the caller and what it returned
    hist_log,          \* history: the entries the caller appended and did not truncate or lose
    hist_commit,       \* history: the highest index whose commit returned Ok
    hist_meta,         \* history: the value last set for each metadata key
    hist_durable,      \* history: the highest index committed Ok before the last sync of the log file
    hist_crashed       \* history: the store was last opened after a crash

mvars == <<m_log, m_committed, m_metadata>>
hvars == <<h_open, h_file, h_index, h_uncommitted, h_metadata, h_metadata_file>>
dvars == <<h_sync, h_disk>>
cvars == <<h_lock, w_commit, r_get, r_scan>>
hist == <<hist_log, hist_commit, hist_meta, hist_durable, hist_crashed>>
vars == <<backend, mvars, hvars, dvars, cvars, last, hist>>

\* What a call returned: op and its arguments, Ok or Err, and the u64 of Ok.
Call(op, idx, bytes, ok, val) ==
    [op |-> op, idx |-> idx, bytes |-> bytes, ok |-> ok, val |-> val]

(***************************************************************************)
(* Memory backend                                                          *)
(***************************************************************************)

MemLen == Len(m_log)

MemCommitted == m_committed

MemGet(index) ==
    IF index = 0 THEN OkNone
    ELSE IF index - 1 < Len(m_log) THEN OkSome(m_log[index]) ELSE OkNone

MemScan(range) ==
    LET take == CASE range.end.kind = "Included" -> range.end.n
                  [] range.end.kind = "Excluded" /\ range.end.n = 0 -> 0
                  [] range.end.kind = "Excluded" -> range.end.n - 1
                  [] OTHER -> Len(m_log)
        skip == CASE range.start.kind = "Included" /\ range.start.n = 0 -> 0
                  [] range.start.kind = "Included" -> range.start.n - 1
                  [] range.start.kind = "Excluded" -> range.start.n
                  [] OTHER -> 0
    IN  MapOk(Skip(Take(m_log, take), skip))

RECURSIVE SumLen(_)
SumLen(s) == IF s = <<>> THEN 0 ELSE Len(Head(s)) + SumLen(Tail(s))

MemSize == SumLen(m_log)

MemGetMetadata(key) ==
    IF key \in DOMAIN m_metadata THEN OkSome(m_metadata[key]) ELSE OkNone

\* MemAppend returning the length before the push.
MemAppend_ReturnsOldLen(entry) ==
    /\ m_log' = Append(m_log, entry)
    /\ last' = Call("append", 0, entry, TRUE, Len(m_log))
    /\ UNCHANGED <<m_committed, m_metadata>>

MemAppend(entry) ==
    /\ m_log' = Append(m_log, entry)
    /\ last' = Call("append", 0, entry, TRUE, Len(m_log) + 1)
    /\ UNCHANGED <<m_committed, m_metadata>>

\* MemCommit without the check against a regression of the boundary.
MemCommit_NoRegressionCheck(index) ==
    IF index > MemLen THEN
        /\ last' = Call("commit", index, <<>>, FALSE, 0)
        /\ UNCHANGED mvars
    ELSE
        /\ m_committed' = index
        /\ last' = Call("commit", index, <<>>, TRUE, 0)
        /\ UNCHANGED <<m_log, m_metadata>>

\* MemCommit dropping the entries behind the index it commits.
MemCommit_TruncatesLog(index) ==
    IF index > MemLen THEN
        /\ last' = Call("commit", index, <<>>, FALSE, 0)
        /\ UNCHANGED mvars
    ELSE IF index < m_committed THEN
        /\ last' = Call("commit", index, <<>>, FALSE, 0)
        /\ UNCHANGED mvars
    ELSE
        /\ m_committed' = index
        /\ m_log' = Take(m_log, index)
        /\ last' = Call("commit", index, <<>>, TRUE, 0)
        /\ UNCHANGED m_metadata

MemCommit(index) ==
    IF index > MemLen THEN
        /\ last' = Call("commit", index, <<>>, FALSE, 0)
        /\ UNCHANGED mvars
    ELSE IF index < m_committed THEN
        /\ last' = Call("commit", index, <<>>, FALSE, 0)
        /\ UNCHANGED mvars
    ELSE
        /\ m_committed' = index
        /\ last' = Call("commit", index, <<>>, TRUE, 0)
        /\ UNCHANGED <<m_log, m_metadata>>

\* MemTruncate without the check against the committed boundary.
MemTruncate_NoCommittedCheck(index) ==
    /\ m_log' = Take(m_log, index)
    /\ last' = Call("truncate", index, <<>>, TRUE, Len(m_log'))
    /\ UNCHANGED <<m_committed, m_metadata>>

\* MemTruncate dropping every uncommitted entry.
MemTruncate_ClearsUncommitted(index) ==
    IF index < m_committed THEN
        /\ last' = Call("truncate", index, <<>>, FALSE, 0)
        /\ UNCHANGED mvars
    ELSE
        /\ m_log' = Take(m_log, m_committed)
        /\ last' = Call("truncate", index, <<>>, TRUE, Len(m_log'))
        /\ UNCHANGED <<m_committed, m_metadata>>

MemTruncate(index) ==
    IF index < m_committed THEN
        /\ last' = Call("truncate", index, <<>>, FALSE, 0)
        /\ UNCHANGED mvars
    ELSE
        /\ m_log' = Take(m_log, index)
        /\ last' = Call("truncate", index, <<>>, TRUE, Len(m_log'))
        /\ UNCHANGED <<m_committed, m_metadata>>

MemSetMetadata(key, value) ==
    /\ m_metadata' = [k \in DOMAIN m_metadata \cup {key} |->
                        IF k = key THEN value ELSE m_metadata[k]]
    /\ last' = Call("set_metadata", 0, key, TRUE, 0)
    /\ UNCHANGED <<m_log, m_committed>>

(***************************************************************************)
(* Hybrid backend: file encodings                                          *)
(***************************************************************************)

\* u32::to_be_bytes of a record length (lengths in the model are below 2^31).
BE32(n) == << (n \div 16777216) % 256, (n \div 65536) % 256, (n \div 256) % 256, n % 256 >>

\* FromBE32 reading the prefix in little-endian order.
FromBE32_LittleEndian(b) == b[4] * 16777216 + b[3] * 65536 + b[2] * 256 + b[1]

\* u32::from_be_bytes.
FromBE32(b) == b[1] * 16777216 + b[2] * 65536 + b[3] * 256 + b[4]

\* bincode's fixed-width little-endian u64 of a length (the high bytes are 0 in the model).
LE64(n) == << n % 256, (n \div 256) % 256, (n \div 65536) % 256, 0, 0, 0, 0, 0 >>

FromLE64(b) == b[1] + b[2] * 256 + b[3] * 65536

\* Read::read_exact of n bytes at byte offset pos; UnexpectedEof when the file is too
\* short.  A read of no bytes succeeds at any offset, also behind the end of the file.
ReadExact(file, pos, n) ==
    IF n = 0 \/ pos + n <= Len(file)
    THEN [ok |-> TRUE, val |-> SubSeq(file, pos + 1, pos + n)]
    ELSE [ok |-> FALSE, val |-> <<>>]

\* BTreeMap::insert.
Insert(map, k, v) == [x \in DOMAIN map \cup {k} |-> IF x = k THEN v ELSE map[x]]

\* The keys of a BTreeMap or a range of it, in ascending order.
RECURSIVE SortedKeys(_)
SortedKeys(S) ==
    IF S = {} THEN <<>>
    ELSE LET lo == CHOOSE k \in S : \A j \in S : k <= j
         IN  <<lo>> \o SortedKeys(S \ {lo})

\* Builds the index by scanning the log file from byte pos on, entry i first.
RECURSIVE BuildIndexFrom(_, _, _, _)
BuildIndexFrom(file, pos, i, index) ==
    IF ~(pos < Len(file)) THEN [ok |-> TRUE, index |-> index]
    ELSE LET sizebuf == ReadExact(file, pos, 4)
         IN  IF ~sizebuf.ok THEN [ok |-> FALSE, index |-> index]
             ELSE LET size == FromBE32(sizebuf.val)
                      buf == ReadExact(file, pos + 4, size)
                  IN  IF ~buf.ok THEN [ok |-> FALSE, index |-> index]
                      ELSE BuildIndexFrom(file, pos + 4 + size, i + 1,
                                          Insert(index, i, <<pos + 4, size>>))

\* build_index ending without an error at a record the file holds only a part of.
RECURSIVE BuildIndexFrom_IgnoresShortTail(_, _, _, _)
BuildIndexFrom_IgnoresShortTail(file, pos, i, index) ==
    IF ~(pos < Len(file)) THEN [ok |-> TRUE, index |-> index]
    ELSE LET sizebuf == ReadExact(file, pos, 4)
         IN  IF ~sizebuf.ok THEN [ok |-> TRUE, index |-> index]
             ELSE LET size == FromBE32(sizebuf.val)
                      buf == ReadExact(file, pos + 4, size)
                  IN  IF ~buf.ok THEN [ok |-> TRUE, index |-> index]
                      ELSE BuildIndexFrom_IgnoresShortTail(file, pos + 4 + size, i + 1,
                                          Insert(index, i, <<pos + 4, size>>))

build_index_IgnoresShortTail(file) == BuildIndexFrom_IgnoresShortTail(file, 0, 1, <<>>)

build_index(file) == BuildIndexFrom(file, 0, 1, <<>>)

\* bincode::serialize_into of the metadata map, its pairs in the order the HashMap iterates.
RECURSIVE SerializePairs(_, _)
SerializePairs(map, order) ==
    IF order = <<>> THEN <<>>
    ELSE LET k == Head(order)
         IN  LE64(Len(k)) \o k \o LE64(Len(map[k])) \o map[k]
                \o SerializePairs(map, Tail(order))

SerializeMap(map, order) == LE64(Len(order)) \o SerializePairs(map, order)

\* The orders in which a HashMap may iterate over its keys.
IterOrders(map) ==
    { o \in [1 .. Cardinality(DOMAIN map) -> DOMAIN map] : \A k \in DOMAIN map : \E i \in DOMAIN o : o[i] = k }

\* bincode::deserialize_from: n pairs read from byte pos on; eof is an UnexpectedEof I/O error.
RECURSIVE DeserializePairs(_, _, _, _)
DeserializePairs(file, pos, n, map) ==
    IF n = 0 THEN [eof |-> FALSE, map |-> map]
    ELSE LET kl == ReadExact(file, pos, 8)
         IN  IF ~kl.ok THEN [eof |-> TRUE, map |-> map]
    ELSE LET k == ReadExact(file, pos + 8, FromLE64(kl.val))
             p1 == pos + 8 + FromLE64(kl.val)
         IN  IF ~k.ok THEN [eof |-> TRUE, map |-> map]
    ELSE LET vl == ReadExact(file, p1, 8)
         IN  IF ~vl.ok THEN [eof |-> TRUE, map |-> map]
    ELSE LET v == ReadExact(file, p1 + 8, FromLE64(vl.val))
             p2 == p1 + 8 + FromLE64(vl.val)
         IN  IF ~v.ok THEN [eof |-> TRUE, map |-> map]
    ELSE DeserializePairs(file, p2, n - 1, Insert(map, k.val, v.val))

\* load_metadata taking an UnexpectedEof for the empty map only when the file is empty.
load_metadata_RejectsCutFile(file) ==
    LET n == ReadExact(file, 0, 8)
        r == IF ~n.ok THEN [eof |-> TRUE, map |-> <<>>]
             ELSE DeserializePairs(file, 8, FromLE64(n.val), <<>>)
    IN  IF r.eof THEN [ok |-> file = <<>>, map |-> <<>>] ELSE [ok |-> TRUE, map |-> r.map]

\* Loads metadata from a file: an UnexpectedEof gives the empty map.
load_metadata(file) ==
    LET n == ReadExact(file, 0, 8)
        r == IF ~n.ok THEN [eof |-> TRUE, map |-> <<>>]
             ELSE DeserializePairs(file, 8, FromLE64(n.val), <<>>)
    IN  IF r.eof THEN [ok |-> TRUE, map |-> <<>>] ELSE [ok |-> TRUE, map |-> r.map]

(***************************************************************************)
(* Hybrid backend: the Store operations                                    *)
(***************************************************************************)

HybCommitted == Cardinality(DOMAIN h_index)

HybLen == Cardinality(DOMAIN h_index) + Len(h_uncommitted)

\* HybGet reading the uncommitted queue at position index - committed.
HybGet_OffByOne(index) ==
    IF index = 0 THEN OkNone
    ELSE IF index <= Cardinality(DOMAIN h_index) THEN
        IF index \notin DOMAIN h_index THEN ErrGet
        ELSE LET pos == h_index[index][1]
                 size == h_index[index][2]
                 entry == ReadExact(h_file, pos, size)
             IN  IF entry.ok THEN OkSome(entry.val) ELSE ErrGet
    ELSE LET k == index - Cardinality(DOMAIN h_index)
         IN  IF k < Len(h_uncommitted) THEN OkSome(h_uncommitted[k + 1]) ELSE OkNone

\* HybGet failing on an index beyond the uncommitted queue.
HybGet_ErrBeyondLen(index) ==
    IF index = 0 THEN OkNone
    ELSE IF index <= Cardinality(DOMAIN h_index) THEN
        IF index \notin DOMAIN h_index THEN ErrGet
        ELSE LET pos == h_index[index][1]
                 size == h_index[index][2]
                 entry == ReadExact(h_file, pos, size)
             IN  IF entry.ok THEN OkSome(entry.val) ELSE ErrGet
    ELSE LET k == index - Cardinality(DOMAIN h_index) - 1
         IN  IF k < Len(h_uncommitted) THEN OkSome(h_uncommitted[k + 1]) ELSE ErrGet

HybGet(index) ==
    IF index = 0 THEN OkNone
    ELSE IF index <= Cardinality(DOMAIN h_index) THEN
        IF index \notin DOMAIN h_index THEN ErrGet
        ELSE LET pos == h_index[index][1]
                 size == h_index[index][2]
                 entry == ReadExact(h_file, pos, size)
             IN  IF entry.ok THEN OkSome(entry.val) ELSE ErrGet
    ELSE LET k == index - Cardinality(DOMAIN h_index) - 1
         IN  IF k < Len(h_uncommitted) THEN OkSome(h_uncommitted[k + 1]) ELSE OkNone

\* The closure of scan over index.range(start..=end): the reader is at byte pos
\* and reads, for each key, a length prefix and then the size the index holds.
RECURSIVE ScanFile(_, _)
ScanFile(keys, pos) ==
    IF keys = <<>> THEN <<>>
    ELSE LET size == h_index[Head(keys)][2]
             sizebuf == ReadExact(h_file, pos, 4)
             entry == ReadExact(h_file, pos + 4, size)
         IN  IF sizebuf.ok /\ entry.ok
             THEN <<OkItem(entry.val)>> \o ScanFile(Tail(keys), pos + 4 + size)
             ELSE <<ErrItem>> \o ScanFile(Tail(keys), Len(h_file))

\* scan as a build with overflow checks (a debug build) or without them (a release
\* build) runs it: an addition that leaves the range of u64 panics in the first and
\* wraps in the second.
HybScanBuild(range, overflow_checks) ==
    LET start_sum == CASE range.start.kind = "Included" /\ range.start.n = 0 -> 1
                       [] range.start.kind = "Included" -> range.start.n
                       [] range.start.kind = "Excluded" -> range.start.n + 1
                       [] OTHER -> 1
        start == start_sum % (U64Max + 1)
        end == CASE range.end.kind = "Included" -> range.end.n
                 [] range.end.kind = "Excluded" /\ range.end.n = 0 -> 0
                 [] range.end.kind = "Excluded" -> range.end.n - 1
                 [] OTHER -> HybLen
        ncommitted == Cardinality(DOMAIN h_index)
        infile == IF start \in DOMAIN h_index
                  THEN ScanFile(SortedKeys({k \in DOMAIN h_index : start <= k /\ k <= end}),
                                h_index[start][1] - 4)
                  ELSE <<>>
        take_sum == end - Max(start, ncommitted) + 1
        inmemory == IF end > ncommitted
                    THEN IF take_sum > U64Max /\ overflow_checks THEN ScanPanic
                         ELSE MapOk(Take(Skip(h_uncommitted, start - Min(start, ncommitted + 1)),
                                         take_sum % (U64Max + 1)))
                    ELSE <<>>
    IN  IF start_sum > U64Max /\ overflow_checks THEN ScanPanic
        ELSE IF start > end THEN <<>>
        ELSE infile \o inmemory

\* scan where no sum leaves the range of u64, which is so for every bound in Indexes.
HybScan(range) == HybScanBuild(range, FALSE)

\* HybSize returning the position of the last record without its length.
HybSize_OmitsLastLength ==
    IF DOMAIN h_index = {} THEN 0
    ELSE LET hi == CHOOSE k \in DOMAIN h_index : \A j \in DOMAIN h_index : j <= k
         IN  h_index[hi][1]

\* HybSize adding the bytes of the uncommitted queue.
HybSize_CountsUncommitted ==
    IF DOMAIN h_index = {} THEN SumLen(h_uncommitted)
    ELSE LET hi == CHOOSE k \in DOMAIN h_index : \A j \in DOMAIN h_index : j <= k
         IN  h_index[hi][1] + h_index[hi][2] + SumLen(h_uncommitted)

HybSize ==
    IF DOMAIN h_index = {} THEN 0
    ELSE LET hi == CHOOSE k \in DOMAIN h_index : \A j \in DOMAIN h_index : j <= k
         IN  h_index[hi][1] + h_index[hi][2]

HybGetMetadata(key) ==
    IF key \in DOMAIN h_metadata THEN OkSome(h_metadata[key]) ELSE OkNone

\* HybAppend writing the entry through to the log file as well.
HybAppend_WritesThrough(entry) ==
    /\ h_uncommitted' = Append(h_uncommitted, entry)
    /\ h_file' = h_file \o BE32(AsU32(Len(entry))) \o entry
    /\ last' = Call("append", 0, entry, TRUE, Cardinality(DOMAIN h_index) + Len(h_uncommitted'))
    /\ UNCHANGED <<h_open, h_index, h_metadata, h_metadata_file, h_disk>>

HybAppend(entry) ==
    /\ h_uncommitted' = Append(h_uncommitted, entry)
    /\ last' = Call("append", 0, entry, TRUE, Cardinality(DOMAIN h_index) + Len(h_uncommitted'))
    /\ UNCHANGED <<h_open, h_file, h_index, h_metadata, h_metadata_file, h_disk>>

\* CommitLoop indexing each record at its length prefix.
RECURSIVE CommitLoop_IndexesPrefix(_, _, _, _, _, _)
CommitLoop_IndexesPrefix(i, index, file, idx, uncommitted, pos) ==
    IF i > index THEN [ok |-> TRUE, file |-> file, index |-> idx, uncommitted |-> uncommitted]
    ELSE IF uncommitted = <<>>
    THEN [ok |-> FALSE, file |-> file, index |-> idx, uncommitted |-> uncommitted]
    ELSE LET entry == Head(uncommitted)
         IN  CommitLoop_IndexesPrefix(i + 1, index,
                        file \o BE32(AsU32(Len(entry))) \o entry,
                        Insert(idx, i, <<pos, AsU32(Len(entry))>>),
                        Tail(uncommitted),
                        pos + 4 + Len(entry))

\* The loop of commit over i..=index: pops each entry, writes its record at byte
\* pos and indexes it.  An exhausted queue ends the loop with an error; the
\* records written so far are flushed when the BufWriter is dropped.
RECURSIVE CommitLoop(_, _, _, _, _, _)
CommitLoop(i, index, file, idx, uncommitted, pos) ==
    IF i > index THEN [ok |-> TRUE, file |-> file, index |-> idx, uncommitted |-> uncommitted]
    ELSE IF uncommitted = <<>>
    THEN [ok |-> FALSE, file |-> file, index |-> idx, uncommitted |-> uncommitted]
    ELSE LET entry == Head(uncommitted)
         IN  CommitLoop(i + 1, index,
                        file \o BE32(AsU32(Len(entry))) \o entry,
                        Insert(idx, i, <<pos + 4, AsU32(Len(entry))>>),
                        Tail(uncommitted),
                        pos + 4 + Len(entry))

\* HybCommit without the check against a nonexistent index.
HybCommit_NoLenCheck(index) ==
    IF index < Cardinality(DOMAIN h_index) THEN
        /\ last' = Call("commit", index, <<>>, FALSE, 0)
        /\ UNCHANGED <<hvars, h_disk>>
    ELSE IF index = Cardinality(DOMAIN h_index) THEN
        /\ last' = Call("commit", index, <<>>, TRUE, 0)
        /\ UNCHANGED <<hvars, h_disk>>
    ELSE
        LET r == CommitLoop(Cardinality(DOMAIN h_index) + 1, index,
                            h_file, h_index, h_uncommitted, Len(h_file))
        IN  /\ h_file' = r.file
            /\ h_index' = r.index
            /\ h_uncommitted' = r.uncommitted
            /\ last' = Call("commit", index, <<>>, r.ok, 0)
            /\ h_disk' = IF r.ok /\ h_sync THEN r.file ELSE h_disk
            /\ UNCHANGED <<h_open, h_metadata, h_metadata_file>>

\* HybCommit returning without the sync_data of sync mode.
HybCommit_NeverSyncs(index) ==
    IF index > HybLen THEN
        /\ last' = Call("commit", index, <<>>, FALSE, 0)
        /\ UNCHANGED <<hvars, h_disk>>
    ELSE IF index < Cardinality(DOMAIN h_index) THEN
        /\ last' = Call("commit", index, <<>>, FALSE, 0)
        /\ UNCHANGED <<hvars, h_disk>>
    ELSE IF index = Cardinality(DOMAIN h_index) THEN
        /\ last' = Call("commit", index, <<>>, TRUE, 0)
        /\ UNCHANGED <<hvars, h_disk>>
    ELSE
        LET r == CommitLoop(Cardinality(DOMAIN h_index) + 1, index,
                            h_file, h_index, h_uncommitted, Len(h_file))
        IN  /\ h_file' = r.file
            /\ h_index' = r.index
            /\ h_uncommitted' = r.uncommitted
            /\ h_disk' = h_disk
            /\ last' = Call("commit", index, <<>>, r.ok, 0)
            /\ UNCHANGED <<h_open, h_metadata, h_metadata_file>>

\* HybCommit seeking to the start of the file and writing over it.
HybCommit_Rewrites(index) ==
    IF index > HybLen THEN
        /\ last' = Call("commit", index, <<>>, FALSE, 0)
        /\ UNCHANGED <<hvars, h_disk>>
    ELSE IF index < Cardinality(DOMAIN h_index) THEN
        /\ last' = Call("commit", index, <<>>, FALSE, 0)
        /\ UNCHANGED <<hvars, h_disk>>
    ELSE IF index = Cardinality(DOMAIN h_index) THEN
        /\ last' = Call("commit", index, <<>>, TRUE, 0)
        /\ UNCHANGED <<hvars, h_disk>>
    ELSE
        LET r == CommitLoop(Cardinality(DOMAIN h_index) + 1, index,
                            <<>>, h_index, h_uncommitted, 0)
        IN  /\ h_file' = r.file
            /\ h_index' = r.index
            /\ h_uncommitted' = r.uncommitted
            /\ h_disk' = IF r.ok /\ h_sync THEN r.file ELSE h_disk
            /\ last' = Call("commit", index, <<>>, r.ok, 0)
            /\ UNCHANGED <<h_open, h_metadata, h_metadata_file>>

HybCommit(index) ==
    IF index > HybLen THEN
        /\ last' = Call("commit", index, <<>>, FALSE, 0)
        /\ UNCHANGED <<hvars, h_disk>>
    ELSE IF index < Cardinality(DOMAIN h_index) THEN
        /\ last' = Call("commit", index, <<>>, FALSE, 0)
        /\ UNCHANGED <<hvars, h_disk>>
    ELSE IF index = Cardinality(DOMAIN h_index) THEN
        /\ last' = Call("commit", index, <<>>, TRUE, 0)
        /\ UNCHANGED <<hvars, h_disk>>
    ELSE
        LET r == CommitLoop(Cardinality(DOMAIN h_index) + 1, index,
                            h_file, h_index, h_uncommitted, Len(h_file))
        IN  /\ h_file' = r.file
            /\ h_index' = r.index
            /\ h_uncommitted' = r.uncommitted
            /\ last' = Call("commit", index, <<>>, r.ok, 0)
            /\ h_disk' = IF r.ok /\ h_sync THEN r.file ELSE h_disk
            /\ UNCHANGED <<h_open, h_metadata, h_metadata_file>>

\* HybTruncate keeping one entry fewer than asked.
HybTruncate_OffByOne(index) ==
    IF index < Cardinality(DOMAIN h_index) THEN
        /\ last' = Call("truncate", index, <<>>, FALSE, 0)
        /\ UNCHANGED <<hvars, h_disk>>
    ELSE
        /\ h_uncommitted' = Take(h_uncommitted, index - Cardinality(DOMAIN h_index) - 1)
        /\ last' = Call("truncate", index, <<>>, TRUE,
                        Cardinality(DOMAIN h_index) + Len(h_uncommitted'))
        /\ UNCHANGED <<h_open, h_file, h_index, h_metadata, h_metadata_file, h_disk>>

\* HybTruncate accepting the index just below the committed boundary.
HybTruncate_LooseGuard(index) ==
    IF index + 1 < Cardinality(DOMAIN h_index) THEN
        /\ last' = Call("truncate", index, <<>>, FALSE, 0)
        /\ UNCHANGED <<hvars, h_disk>>
    ELSE
        /\ h_uncommitted' = Take(h_uncommitted, index - Cardinality(DOMAIN h_index))
        /\ last' = Call("truncate", index, <<>>, TRUE,
                        Cardinality(DOMAIN h_index) + Len(h_uncommitted'))
        /\ UNCHANGED <<h_open, h_file, h_index, h_metadata, h_metadata_file, h_disk>>

HybTruncate(index) ==
    IF index < Cardinality(DOMAIN h_index) THEN
        /\ last' = Call("truncate", index, <<>>, FALSE, 0)
        /\ UNCHANGED <<hvars, h_disk>>
    ELSE
        /\ h_uncommitted' = Take(h_uncommitted, index - Cardinality(DOMAIN h_index))
        /\ last' = Call("truncate", index, <<>>, TRUE,
                        Cardinality(DOMAIN h_index) + Len(h_uncommitted'))
        /\ UNCHANGED <<h_open, h_file, h_index, h_metadata, h_metadata_file, h_disk>>

\* HybSetMetadata serializing only the pair it was given.
HybSetMetadata_WritesOnlyKey(key, value) ==
    /\ h_metadata' = Insert(h_metadata, key, value)
    /\ h_metadata_file' = SerializeMap(h_metadata', <<key>>)
    /\ last' = Call("set_metadata", 0, key, TRUE, 0)
    /\ UNCHANGED <<h_open, h_file, h_index, h_uncommitted, h_disk>>

\* HybSetMetadata serializing the map into the log file as well.
HybSetMetadata_WritesLogFile(key, value) ==
    /\ h_metadata' = Insert(h_metadata, key, value)
    /\ \E order \in IterOrders(h_metadata') :
            /\ h_metadata_file' = SerializeMap(h_metadata', order)
            /\ h_file' = SerializeMap(h_metadata', order)
    /\ last' = Call("set_metadata", 0, key, TRUE, 0)
    /\ UNCHANGED <<h_open, h_index, h_uncommitted, h_disk>>

HybSetMetadata(key, value) ==
    /\ h_metadata' = Insert(h_metadata, key, value)
    /\ \E order \in IterOrders(h_metadata') :
            h_metadata_file' = SerializeMap(h_metadata', order)
    /\ last' = Call("set_metadata", 0, key, TRUE, 0)
    /\ UNCHANGED <<h_open, h_file, h_index, h_uncommitted, h_disk>>

\* The calls of set_metadata that can fail: set_len, seek, the writes of
\* serialize_into and sync_data.
SetMetadataFailPoints == { "set_len", "seek", "serialize", "sync" }

\* set_metadata(key, value) whose call at the given point fails.  The pair is in the
\* map before any of them runs; the file is as it was when set_len fails, empty when
\* seek fails, holds a part of the bytes of the map when a write fails, and all of
\* them when sync_data fails.  The error is returned by `?`.
HybSetMetadataFail(key, value, point) ==
    /\ point = "sync" => h_sync
    /\ h_metadata' = Insert(h_metadata, key, value)
    /\ CASE point = "set_len" -> h_metadata_file' = h_metadata_file
         [] point = "seek" -> h_metadata_file' = <<>>
         [] OTHER ->
                \E order \in IterOrders(h_metadata') :
                    LET bytes == SerializeMap(h_metadata', order)
                    IN  IF point = "sync" THEN h_metadata_file' = bytes
                        ELSE \E written \in 0 .. (Len(bytes) - 1) :
                                h_metadata_file' = Take(bytes, written)
    /\ last' = Call("set_metadata", 0, key, FALSE, 0)
    /\ UNCHANGED <<h_open, h_file, h_index, h_uncommitted, h_disk>>

\* Hybrid::new on the directory of a store that was dropped.
\* HybNew keeping the uncommitted queue of the store that was dropped.
HybNew_KeepsUncommitted ==
    LET index == build_index(h_file)
        metadata == load_metadata(h_metadata_file)
    IN  IF index.ok /\ metadata.ok THEN
            /\ h_open' = TRUE
            /\ h_index' = index.index
            /\ h_uncommitted' = h_uncommitted
            /\ h_metadata' = metadata.map
            /\ last' = Call("new", 0, <<>>, TRUE, 0)
            /\ UNCHANGED <<h_file, h_metadata_file>>
        ELSE
            /\ h_open' = FALSE
            /\ h_index' = <<>>
            /\ h_uncommitted' = <<>>
            /\ h_metadata' = <<>>
            /\ last' = Call("new", 0, <<>>, FALSE, 0)
            /\ UNCHANGED <<h_file, h_metadata_file>>

HybNew ==
    LET index == build_index(h_file)
        metadata == load_metadata(h_metadata_file)
    IN  IF index.ok /\ metadata.ok THEN
            /\ h_open' = TRUE
            /\ h_index' = index.index
            /\ h_uncommitted' = <<>>
            /\ h_metadata' = metadata.map
            /\ last' = Call("new", 0, <<>>, TRUE, 0)
            /\ UNCHANGED <<h_file, h_metadata_file>>
        ELSE
            /\ h_open' = FALSE
            /\ h_index' = <<>>
            /\ h_uncommitted' = <<>>
            /\ h_metadata' = <<>>
            /\ last' = Call("new", 0, <<>>, FALSE, 0)
            /\ UNCHANGED <<h_file, h_metadata_file>>

(***************************************************************************)
(* The caller                                                              *)
(***************************************************************************)

\* No commit, get or scan is in progress.
NoCommit == [active |-> FALSE, index |-> 0, i |-> 0, pos |-> 0, buf |-> <<>>]
NoGet == [active |-> FALSE, thread |-> "none", index |-> 0, pos |-> 0, size |-> 0]
NoScan == [active |-> FALSE, keys |-> <<>>, pos |-> 0]

\* Memory::new and Hybrid::new on an empty directory.
InitStore ==
    /\ m_log = <<>>
    /\ m_committed = 0
    /\ m_metadata = <<>>
    /\ h_open = TRUE
    /\ h_file = <<>>
    /\ h_index = <<>>
    /\ h_uncommitted = <<>>
    /\ h_metadata = <<>>
    /\ h_metadata_file = <<>>
    /\ h_disk = <<>>
    /\ h_lock = "free"
    /\ w_commit = NoCommit
    /\ r_get = NoGet
    /\ r_scan = NoScan
    /\ last = Call("new", 0, <<>>, TRUE, 0)
    /\ hist_log = <<>>
    /\ hist_commit = 0
    /\ hist_meta = <<>>
    /\ hist_durable = 0
    /\ hist_crashed = FALSE

\* The caller has either backend.  The sync flag acts on stable storage only, which
\* no call observes: the behaviours of both its values are those of SpecCrash.
Init ==
    /\ InitStore
    /\ backend \in { "memory", "hybrid" }
    /\ h_sync = TRUE

\* The length of the store the caller drives.
CurLen == IF backend = "memory" THEN MemLen ELSE HybLen

AppendStep ==
    \E entry \in EntryPool :
        /\ CurLen < MaxLog
        /\ \/ backend = "memory" /\ MemAppend(entry) /\ UNCHANGED <<hvars, h_disk>>
           \/ backend = "hybrid" /\ h_open /\ HybAppend(entry) /\ UNCHANGED mvars
        /\ hist_log' = Append(hist_log, entry)
        /\ UNCHANGED <<backend, h_sync, cvars, hist_commit, hist_meta, hist_durable, hist_crashed>>

CommitStep ==
    \E index \in Indexes :
        /\ \/ backend = "memory" /\ MemCommit(index) /\ UNCHANGED <<hvars, h_disk>>
           \/ backend = "hybrid" /\ h_open /\ HybCommit(index) /\ UNCHANGED mvars
        /\ hist_commit' = IF last'.ok THEN index ELSE hist_commit
        /\ hist_durable' = IF last'.ok /\ h_sync THEN index ELSE hist_durable
        /\ UNCHANGED <<backend, h_sync, cvars, hist_log, hist_meta, hist_crashed>>

TruncateStep ==
    \E index \in Indexes :
        /\ \/ backend = "memory" /\ MemTruncate(index) /\ UNCHANGED <<hvars, h_disk>>
           \/ backend = "hybrid" /\ h_open /\ HybTruncate(index) /\ UNCHANGED mvars
        /\ hist_log' = IF last'.ok THEN Take(hist_log, index) ELSE hist_log
        /\ UNCHANGED <<backend, h_sync, cvars, hist_commit, hist_meta, hist_durable, hist_crashed>>

SetMetadataStep ==
    \E key \in MetaKeys, value \in MetaVals :
        /\ \/ backend = "memory" /\ MemSetMetadata(key, value) /\ UNCHANGED <<hvars, h_disk>>
           \/ backend = "hybrid" /\ h_open /\ HybSetMetadata(key, value) /\ UNCHANGED mvars
        /\ hist_meta' = IF last'.ok THEN Insert(hist_meta, key, value) ELSE hist_meta
        /\ UNCHANGED <<backend, h_sync, cvars, hist_log, hist_commit, hist_durable, hist_crashed>>

\* Drop for Hybrid: what was written to the log file reaches stable storage.
HybDrop == h_disk' = h_file

\* The store is dropped and opened again on the same directory.
ReopenStep ==
    /\ backend = "hybrid"
    /\ h_open
    /\ HybDrop
    /\ HybNew
    /\ hist_log' = Take(hist_log, hist_commit)
    /\ hist_durable' = hist_commit
    /\ hist_crashed' = FALSE
    /\ UNCHANGED <<backend, mvars, h_sync, cvars, hist_commit, hist_meta>>

\* The process and the machine stop between two calls.  The log file keeps what
\* was synced and any part of what was written behind it; the in-memory state is lost.
CrashStep ==
    /\ backend = "hybrid"
    /\ h_open
    /\ \E keep \in Len(h_disk) .. Len(h_file) :
            /\ h_file' = Take(h_file, keep)
            /\ h_disk' = Take(h_file, keep)
            /\ last' = Call("crash", keep, <<>>, keep = Len(h_disk), Len(h_file))
    /\ h_open' = FALSE
    /\ h_index' = <<>>
    /\ h_uncommitted' = <<>>
    /\ h_metadata' = <<>>
    /\ UNCHANGED <<backend, mvars, h_metadata_file, h_sync, cvars, hist>>

\* The process and the machine stop inside commit(index), behind its checks and before
\* its sync_data: any part of the records it writes may have reached the file.
CommitCrashStep ==
    /\ backend = "hybrid"
    /\ h_open
    /\ \E index \in Indexes :
            /\ index <= HybLen
            /\ index > Cardinality(DOMAIN h_index)
            /\ LET r == CommitLoop(Cardinality(DOMAIN h_index) + 1, index,
                                   h_file, h_index, h_uncommitted, Len(h_file))
               IN  \E keep \in Len(h_disk) .. Len(r.file) :
                       /\ h_file' = Take(r.file, keep)
                       /\ h_disk' = Take(r.file, keep)
                       /\ last' = Call("crash", keep, <<>>, keep = Len(h_disk), Len(r.file))
    /\ h_open' = FALSE
    /\ h_index' = <<>>
    /\ h_uncommitted' = <<>>
    /\ h_metadata' = <<>>
    /\ UNCHANGED <<backend, mvars, h_metadata_file, h_sync, cvars, hist>>

\* Hybrid::new on the directory a crash left.  The store it returns holds the records
\* of the file, all of them committed.
RecoverStep ==
    /\ backend = "hybrid"
    /\ ~h_open
    /\ last.op \in { "crash", "crash_metadata" }
    /\ HybNew
    /\ IF last'.ok THEN
            /\ hist_log' = [i \in 1 .. Cardinality(DOMAIN h_index') |->
                                ReadExact(h_file, h_index'[i][1], h_index'[i][2]).val]
            /\ hist_commit' = Cardinality(DOMAIN h_index')
            /\ hist_durable' = Cardinality(DOMAIN h_index')
       ELSE UNCHANGED <<hist_log, hist_commit, hist_durable>>
    /\ hist_meta' = IF last'.ok THEN h_metadata' ELSE hist_meta
    /\ hist_crashed' = TRUE
    /\ UNCHANGED <<backend, mvars, dvars, cvars>>

\* The process and the machine stop inside set_metadata(key, value), behind its
\* set_len(0): the metadata file holds the first keep bytes of the map being written.
SetMetadataCrashStep ==
    /\ backend = "hybrid"
    /\ h_open
    /\ \E key \in MetaKeys, value \in MetaVals :
            LET metadata == Insert(h_metadata, key, value)
            IN  \E order \in IterOrders(metadata) :
                    LET bytes == SerializeMap(metadata, order)
                    IN  \E keep \in 0 .. Len(bytes) :
                            /\ h_metadata_file' = Take(bytes, keep)
                            /\ last' = Call("crash_metadata", keep, key, TRUE, Len(bytes))
    /\ h_file' = h_disk
    /\ h_open' = FALSE
    /\ h_index' = <<>>
    /\ h_uncommitted' = <<>>
    /\ h_metadata' = <<>>
    /\ UNCHANGED <<backend, mvars, dvars, cvars, hist>>

\* A call of set_metadata in which a call on the metadata file fails.  The failure
\* hits a file that decodes to the map in memory: the model follows one failure that
\* sets the two apart, not a series of them.
SetMetadataFailStep ==
    /\ backend = "hybrid"
    /\ h_open
    /\ load_metadata(h_metadata_file).map = h_metadata
    /\ \E key \in MetaKeys, value \in MetaVals, point \in SetMetadataFailPoints :
            HybSetMetadataFail(key, value, point)
    /\ UNCHANGED <<backend, mvars, h_sync, cvars, hist>>

\* append of an entry whose length does not fit in a u32.
AppendWideStep ==
    /\ CurLen < MaxLog
    /\ backend = "hybrid"
    /\ h_open
    /\ HybAppend(WideEntry)
    /\ hist_log' = Append(hist_log, WideEntry)
    /\ UNCHANGED <<backend, mvars, h_sync, cvars, hist_commit, hist_meta, hist_durable, hist_crashed>>

Next ==
    \/ AppendStep
    \/ CommitStep
    \/ TruncateStep
    \/ SetMetadataStep
    \/ ReopenStep

Spec == Init /\ [][Next]_vars

\* A Hybrid store, with or without sync mode, whose process may crash.
InitCrash ==
    /\ InitStore
    /\ backend = "hybrid"
    /\ h_sync \in BOOLEAN

NextCrash ==
    \/ AppendStep
    \/ CommitStep
    \/ TruncateStep
    \/ ReopenStep
    \/ CrashStep
    \/ CommitCrashStep
    \/ RecoverStep

SpecCrash == InitCrash /\ [][NextCrash]_vars

\* A Hybrid store in sync mode whose caller also appends entries too long for a u32.
InitWide ==
    /\ InitStore
    /\ backend = "hybrid"
    /\ h_sync = TRUE

NextWide ==
    \/ AppendStep
    \/ AppendWideStep
    \/ CommitStep
    \/ TruncateStep
    \/ ReopenStep

SpecWide == InitWide /\ [][NextWide]_vars

\* A Hybrid store in sync mode whose process may crash inside set_metadata.  Its log
\* stays empty: what a crash does to the log file is in SpecCrash.
InitMetaCrash ==
    /\ InitStore
    /\ backend = "hybrid"
    /\ h_sync = TRUE

NextMetaCrash ==
    \/ SetMetadataStep
    \/ ReopenStep
    \/ SetMetadataCrashStep
    \/ RecoverStep

SpecMetaCrash == InitMetaCrash /\ [][NextMetaCrash]_vars

\* A Memory store and a Hybrid store that get the same calls, Memory first: backend
\* names the store whose turn it is.  Memory takes a call of the caller.
BothMemStep ==
    /\ backend = "memory"
    /\ \/ \E entry \in EntryPool : MemLen < MaxLog /\ MemAppend(entry)
       \/ \E index \in Indexes : MemCommit(index)
       \/ \E index \in Indexes : MemTruncate(index)
       \/ \E key \in MetaKeys, value \in MetaVals : MemSetMetadata(key, value)
    /\ backend' = "hybrid"
    /\ UNCHANGED <<hvars, dvars, cvars, hist>>

\* Hybrid takes the call that Memory took, with the same arguments.
BothHybStep ==
    /\ backend = "hybrid"
    /\ h_open
    /\ \/ last.op = "append" /\ HybAppend(last.bytes)
       \/ last.op = "commit" /\ HybCommit(last.idx)
       \/ last.op = "truncate" /\ HybTruncate(last.idx)
       \/ last.op = "set_metadata" /\ HybSetMetadata(last.bytes, m_metadata[last.bytes])
    /\ backend' = "memory"
    /\ UNCHANGED <<mvars, h_sync, cvars, hist>>

InitBoth ==
    /\ InitStore
    /\ backend = "memory"
    /\ h_sync = TRUE

NextBoth ==
    \/ BothMemStep
    \/ BothHybStep

SpecBoth == InitBoth /\ [][NextBoth]_vars

\* The records commit writes for a sequence of entries.
RECURSIVE Framed(_)
Framed(entries) ==
    IF entries = <<>> THEN <<>>
    ELSE BE32(Len(Head(entries))) \o Head(entries) \o Framed(Tail(entries))

\* The calls of commit that can fail once the file is locked: the write of the length
\* prefix of an entry, the write of its bytes, the flush behind the loop and sync_data.
CommitFailPoints == { "prefix", "entry", "flush", "sync" }

\* commit(index) whose call at the given point fails while entry i is written.  The
\* entries before i went through the loop; entry i is popped, and indexed once its
\* prefix was handed to the BufWriter.  Of the bytes handed to the BufWriter, the
\* first `written` reached the file, by the writes before the failure or by the
\* flush of the BufWriter when it is dropped.  The error is returned by `?`.
HybCommitFail(index, i, point, written) ==
    LET first == Cardinality(DOMAIN h_index) + 1
        done == CommitLoop(first, i - 1, h_file, h_index, h_uncommitted, Len(h_file))
        entry == Head(done.uncommitted)
        pos == Len(done.file)
        buf == Skip(done.file, Len(h_file)) \o BE32(AsU32(Len(entry)))
                 \o (IF point = "prefix" THEN <<>> ELSE entry)
    IN  /\ first <= i /\ i <= index /\ index <= HybLen
        /\ point \in { "flush", "sync" } => i = index /\ h_sync
        /\ point = "entry" => entry # <<>>
        /\ written <= Len(buf)
        /\ point \in { "prefix", "entry" } => written < Len(buf)
        /\ point = "sync" => written = Len(buf)
        /\ h_uncommitted' = Tail(done.uncommitted)
        /\ h_index' = IF point = "prefix" THEN done.index
                      ELSE Insert(done.index, i, <<pos + 4, AsU32(Len(entry))>>)
        /\ h_file' = h_file \o Take(buf, written)
        /\ last' = Call("commit", index, <<>>, FALSE, 0)
        /\ UNCHANGED <<h_open, h_metadata, h_metadata_file, h_disk>>

\* commit(index) that fails on its write path: at the lock, when the Mutex is
\* poisoned, at the seek to the end of the file, or at a later point.  A failure at
\* a later point hits a file that holds the committed entries and nothing else: the
\* model follows one failure that tears the file, not a series of them.  An entry
\* that was popped and not indexed is lost to the caller.
CommitFailStep ==
    /\ backend = "hybrid"
    /\ h_open
    /\ \E index \in Indexes :
        \/ /\ Cardinality(DOMAIN h_index) < index /\ index <= HybLen
           /\ last' = Call("commit", index, <<>>, FALSE, 0)
           /\ UNCHANGED <<hvars, h_disk>>
        \/ /\ h_lock = "free"
           /\ h_file = Framed(Take(hist_log, Cardinality(DOMAIN h_index)))
           /\ \E i \in Indexes :
                /\ Cardinality(DOMAIN h_index) < i /\ i <= index /\ index <= HybLen
                /\ \E point \in CommitFailPoints, written \in 0 .. (MaxLog * 6) :
                        HybCommitFail(index, i, point, written)
    /\ hist_log' = Take(hist_log, Cardinality(DOMAIN h_index')) \o h_uncommitted'
    /\ UNCHANGED <<backend, mvars, h_sync, cvars, hist_commit, hist_meta, hist_durable,
                   hist_crashed>>

\* get(index) of a committed entry that fails at the lock, when the Mutex is
\* poisoned, at the seek or at the read: each error is returned by `?`.
GetFailStep ==
    /\ backend = "hybrid"
    /\ h_open
    /\ \E index \in Indexes :
        /\ 0 < index /\ index <= Cardinality(DOMAIN h_index)
        /\ last' = Call("get", index, <<>>, FALSE, 0)
    /\ UNCHANGED <<backend, mvars, hvars, dvars, cvars, hist>>

\* scan(range) that reaches the committed entries and fails where it is created: at
\* the lock, when the Mutex is poisoned, or at the seek.  Both results are unwrapped:
\* the thread panics, and at the seek it holds the guard, which poisons the Mutex.
ScanFailStep ==
    /\ backend = "hybrid"
    /\ h_open
    /\ TRUE = \E range \in Ranges :
        LET start == CASE range.start.kind = "Included" /\ range.start.n = 0 -> 1
                       [] range.start.kind = "Included" -> range.start.n
                       [] range.start.kind = "Excluded" -> range.start.n + 1
                       [] OTHER -> 1
            end == CASE range.end.kind = "Included" -> range.end.n
                     [] range.end.kind = "Excluded" /\ range.end.n = 0 -> 0
                     [] range.end.kind = "Excluded" -> range.end.n - 1
                     [] OTHER -> HybLen
        IN  start <= end /\ start \in DOMAIN h_index
    /\ last' = Call("panic", 0, <<>>, FALSE, 0)
    /\ h_lock' = "poisoned"
    /\ UNCHANGED <<backend, mvars, hvars, dvars, w_commit, r_get, r_scan, hist>>

\* A call of commit on a store whose Mutex is not poisoned.
CommitFreeStep == h_lock = "free" /\ CommitStep

\* A Hybrid store in sync mode whose calls on its files and on its Mutex may fail.
InitFail ==
    /\ InitStore
    /\ backend = "hybrid"
    /\ h_sync = TRUE

NextFail ==
    \/ AppendStep
    \/ CommitFreeStep
    \/ CommitFailStep
    \/ GetFailStep
    \/ ScanFailStep

SpecFail == InitFail /\ [][NextFail]_vars

\* A Hybrid store in sync mode whose calls on the metadata file may fail.  Its log
\* stays empty.
InitMetaFail ==
    /\ InitStore
    /\ backend = "hybrid"
    /\ h_sync = TRUE

NextMetaFail ==
    \/ SetMetadataStep
    \/ SetMetadataFailStep
    \/ ReopenStep

SpecMetaFail == InitMetaFail /\ [][NextMetaFail]_vars

(***************************************************************************)
(* The calls of Hybrid step by step, synchronised by the Mutex of the file *)
(***************************************************************************)

\* The threads that read: the one that owns the Scan iterator, and another one.
Threads == { "scanner", "other" }

\* The thread that owns the Scan iterator is inside a call of get.
ScannerInGet == r_get.active /\ r_get.thread = "scanner"

\* append, by the thread that writes, between two of its calls.
WriterAppend ==
    /\ ~w_commit.active
    /\ AppendStep

\* commit(index) up to its seek: the checks, the lock of the file, the position of
\* the end of the file and the empty BufWriter.  A call that fails a check or has
\* nothing to write returns at once; one that has to write waits for the lock.
CommitBegin ==
    /\ ~w_commit.active
    /\ \E index \in Indexes :
            IF index > HybLen \/ index < Cardinality(DOMAIN h_index) THEN
                /\ last' = Call("commit", index, <<>>, FALSE, 0)
                /\ UNCHANGED <<h_lock, w_commit, hist_commit, hist_durable>>
            ELSE IF index = Cardinality(DOMAIN h_index) THEN
                /\ last' = Call("commit", index, <<>>, TRUE, 0)
                /\ hist_commit' = index
                /\ hist_durable' = IF h_sync THEN index ELSE hist_durable
                /\ UNCHANGED <<h_lock, w_commit>>
            ELSE
                /\ h_lock = "free"
                /\ h_lock' = "commit"
                /\ w_commit' = [active |-> TRUE, index |-> index,
                                i |-> Cardinality(DOMAIN h_index) + 1,
                                pos |-> Len(h_file), buf |-> <<>>]
                /\ UNCHANGED <<last, hist_commit, hist_durable>>
    /\ UNCHANGED <<backend, mvars, hvars, dvars, r_get, r_scan, hist_log, hist_meta, hist_crashed>>

\* One turn of the loop of commit: the entry is popped, its record goes into the
\* BufWriter and its place into the index.
CommitWrite ==
    /\ w_commit.active
    /\ w_commit.i <= w_commit.index
    /\ h_uncommitted # <<>>
    /\ LET entry == Head(h_uncommitted)
       IN  /\ h_uncommitted' = Tail(h_uncommitted)
           /\ h_index' = Insert(h_index, w_commit.i, <<w_commit.pos + 4, AsU32(Len(entry))>>)
           /\ w_commit' = [w_commit EXCEPT !.i = @ + 1,
                                            !.pos = @ + 4 + Len(entry),
                                            !.buf = @ \o BE32(AsU32(Len(entry))) \o entry]
    /\ UNCHANGED <<backend, mvars, h_open, h_file, h_metadata, h_metadata_file, dvars,
                   h_lock, r_get, r_scan, last, hist>>

\* The end of commit: the BufWriter is flushed into the file, the file is synced in
\* sync mode, and the guard of the lock is dropped as commit returns.
CommitFlush ==
    /\ w_commit.active
    /\ w_commit.i > w_commit.index
    /\ h_file' = h_file \o w_commit.buf
    /\ h_disk' = IF h_sync THEN h_file' ELSE h_disk
    /\ h_lock' = "free"
    /\ w_commit' = NoCommit
    /\ last' = Call("commit", w_commit.index, <<>>, TRUE, 0)
    /\ hist_commit' = w_commit.index
    /\ hist_durable' = IF h_sync THEN w_commit.index ELSE hist_durable
    /\ UNCHANGED <<backend, mvars, h_open, h_index, h_uncommitted, h_metadata,
                   h_metadata_file, h_sync, r_get, r_scan, hist_log, hist_meta, hist_crashed>>

\* get(index) up to its lock: index 0 and an index behind the committed ones are
\* answered from memory; a committed one is looked up in the index.
GetLookup ==
    /\ ~r_get.active
    /\ \E thread \in Threads, index \in Indexes :
            IF index >= 1 /\ index <= Cardinality(DOMAIN h_index) /\ index \in DOMAIN h_index THEN
                /\ r_get' = [active |-> TRUE, thread |-> thread, index |-> index,
                             pos |-> h_index[index][1], size |-> h_index[index][2]]
                /\ UNCHANGED last
            ELSE
                /\ last' = Call("get", index, HybGet(index).val, HybGet(index).ok,
                                IF HybGet(index).some THEN 1 ELSE 0)
                /\ UNCHANGED r_get
    /\ UNCHANGED <<backend, mvars, hvars, dvars, h_lock, w_commit, r_scan, hist>>

\* get behind its lookup reading no more than the file holds, without the lock.
GetRead_NoLock ==
    /\ r_get.active
    /\ LET entry == ReadExact(h_file, r_get.pos, r_get.size)
       IN  last' = Call("get", r_get.index, entry.val, entry.ok, 1)
    /\ r_get' = NoGet
    /\ UNCHANGED <<backend, mvars, hvars, dvars, h_lock, w_commit, r_scan, hist>>

\* The rest of get: it locks the file, which it can when no guard is alive, seeks,
\* reads the entry and drops the guard as it returns.
GetRead ==
    /\ r_get.active
    /\ h_lock = "free"
    /\ LET entry == ReadExact(h_file, r_get.pos, r_get.size)
       IN  last' = Call("get", r_get.index, entry.val, entry.ok, 1)
    /\ r_get' = NoGet
    /\ UNCHANGED <<backend, mvars, hvars, dvars, h_lock, w_commit, r_scan, hist>>

\* scan(start..=end) with start committed: it locks the file, seeks to the length
\* prefix of start and returns an iterator that owns the guard.
ScanOpen ==
    /\ ~r_scan.active
    /\ ~ScannerInGet
    /\ h_lock = "free"
    /\ \E start \in DOMAIN h_index, end \in Indexes :
            /\ start <= end
            /\ r_scan' = [active |-> TRUE,
                          keys |-> SortedKeys({k \in DOMAIN h_index : start <= k /\ k <= end}),
                          pos |-> h_index[start][1] - 4]
            /\ last' = Call("scan", start, <<>>, TRUE, end)
    /\ h_lock' = "scan"
    /\ UNCHANGED <<backend, mvars, hvars, dvars, w_commit, r_get, hist>>

\* next() of the iterator: the closure reads a length prefix and an entry.
ScanNext ==
    /\ r_scan.active
    /\ ~ScannerInGet
    /\ r_scan.keys # <<>>
    /\ LET key == Head(r_scan.keys)
           size == h_index[key][2]
           sizebuf == ReadExact(h_file, r_scan.pos, 4)
           entry == ReadExact(h_file, r_scan.pos + 4, size)
       IN  /\ last' = Call("scan_next", key, entry.val, sizebuf.ok /\ entry.ok, 1)
           /\ r_scan' = [r_scan EXCEPT !.keys = Tail(@), !.pos = @ + 4 + size]
    /\ UNCHANGED <<backend, mvars, hvars, dvars, h_lock, w_commit, r_get, hist>>

\* The iterator is dropped, exhausted or not, and the guard with it.
ScanDrop ==
    /\ r_scan.active
    /\ ~ScannerInGet
    /\ r_scan' = NoScan
    /\ h_lock' = "free"
    /\ UNCHANGED <<backend, mvars, hvars, dvars, w_commit, r_get, last, hist>>

\* A Hybrid store in sync mode.
InitLock ==
    /\ InitStore
    /\ backend = "hybrid"
    /\ h_sync = TRUE

NextLock ==
    \/ WriterAppend
    \/ CommitBegin
    \/ CommitWrite
    \/ CommitFlush
    \/ GetLookup
    \/ GetRead
    \/ ScanOpen
    \/ ScanNext
    \/ ScanDrop

\* A call that has started goes on while it can: a thread that waits for the lock gets
\* it if it is free again and again, and whoever owns an iterator drops it in the end.
FairLock ==
    /\ WF_vars(CommitWrite)
    /\ WF_vars(CommitFlush)
    /\ SF_vars(GetRead)
    /\ WF_vars(ScanDrop)

SpecLock == InitLock /\ [][NextLock]_vars /\ FairLock

(***************************************************************************)
(* The Store contract as seen through the store the caller drives          *)
(***************************************************************************)

CurCommitted == IF backend = "memory" THEN MemCommitted ELSE HybCommitted
CurGet(index) == IF backend = "memory" THEN MemGet(index) ELSE HybGet(index)
CurScan(range) == IF backend = "memory" THEN MemScan(range) ELSE HybScan(range)
CurScanBuild(range, overflow_checks) ==
    IF backend = "memory" THEN MemScan(range) ELSE HybScanBuild(range, overflow_checks)
CurSize == IF backend = "memory" THEN MemSize ELSE HybSize
CurGetMetadata(key) == IF backend = "memory" THEN MemGetMetadata(key) ELSE HybGetMetadata(key)

FullRange == [start |-> [kind |-> "Unbounded", n |-> 0], end |-> [kind |-> "Unbounded", n |-> 0]]

\* The bounds of a range resolved to 1-based indexes (section 4.2 of the design).
ResolvedStart(range) ==
    CASE range.start.kind = "Included" -> Max(range.start.n, 1)
      [] range.start.kind = "Excluded" -> range.start.n + 1
      [] OTHER -> 1

ResolvedEnd(range) ==
    CASE range.end.kind = "Included" -> range.end.n
      [] range.end.kind = "Excluded" -> Max(range.end.n, 1) - 1
      [] OTHER -> CurLen

\* The entries at the indexes of [lo, hi] that exist, in ascending order.
Window(lo, hi) ==
    LET a == Max(lo, 1)
        b == Min(hi, CurLen)
    IN  IF a > b THEN <<>> ELSE [k \in 1 .. (b - a + 1) |-> OkItem(CurGet(a + k - 1).val)]

(***************************************************************************)
(* Properties                                                              *)
(***************************************************************************)

\* C1: on both backends get(i) returns the i-th appended entry for every i in
\* [1, n], whatever prefix of the n entries has been committed.
C1_GetReturnsAppended ==
    /\ CurLen = Len(hist_log)
    /\ \A i \in 1 .. Len(hist_log) : CurGet(i) = OkSome(hist_log[i])

C1_Witness ==
    /\ backend = "hybrid"
    /\ Len(hist_log) >= 3
    /\ hist_log[1] # hist_log[2]
    /\ HybCommitted >= 1
    /\ Len(h_uncommitted) >= 1

\* C2: a Hybrid store reopened after commit(i) returned Ok has committed() = i and
\* len() = i, and its scan(..) yields the entries 1..i as they were appended; the
\* entries that were not committed are gone.
C2_ReopenRestoresCommitted ==
    (backend = "hybrid" /\ last.op = "new") =>
        /\ last.ok
        /\ HybCommitted = hist_commit
        /\ HybLen = hist_commit
        /\ Len(hist_log) = hist_commit
        /\ HybScan(FullRange) = MapOk(hist_log)

C2_Witness ==
    /\ backend = "hybrid"
    /\ last.op = "new"
    /\ HybCommitted >= 2
    /\ hist_commit = HybCommitted
    /\ h_index[1][2] # h_index[2][2]

\* C3: committed() <= len() in every state, and no call makes committed()
\* decrease or exceed len().
C3_CommittedBounded ==
    /\ [](CurCommitted <= CurLen)
    /\ [][CurCommitted' >= CurCommitted /\ CurCommitted' <= CurLen']_vars

C3_Witness ==
    /\ last.op = "commit"
    /\ ~last.ok
    /\ last.idx < CurCommitted
    /\ CurCommitted < CurLen

\* C4: an entry at or below committed() is returned unchanged by get after every
\* later call, and on Hybrid after a reopen.
C4_CommittedImmutable ==
    [][\A i \in 1 .. CurCommitted : CurGet(i).some /\ CurGet(i)' = CurGet(i)]_vars

C4_Witness ==
    /\ backend = "hybrid"
    /\ last.op = "truncate"
    /\ last.ok
    /\ last.idx = HybCommitted
    /\ HybCommitted >= 2

\* C5: commit(i) with i = committed() returns Ok and changes nothing; with
\* i < committed() or i > len() it returns an error and changes nothing.
C5_CommitNoopAndErrors ==
    [][last'.op = "commit" =>
            /\ last'.idx = CurCommitted => (last'.ok /\ UNCHANGED <<mvars, hvars>>)
            /\ (last'.idx < CurCommitted \/ last'.idx > CurLen) =>
                    (~last'.ok /\ UNCHANGED <<mvars, hvars>>)]_vars

C5_Witness ==
    /\ backend = "hybrid"
    /\ last.op = "commit"
    /\ ~last.ok
    /\ last.idx > HybLen
    /\ HybCommitted >= 1
    /\ Len(h_uncommitted) >= 1

\* C6 as stated: truncate(i) with i >= committed() succeeds, leaves len() = i and
\* returns the new len(), also when i is greater than len().
C6_TruncateYieldsIndex ==
    [][(last'.op = "truncate" /\ last'.idx >= CurCommitted) =>
            /\ last'.ok
            /\ CurLen' = last'.idx
            /\ last'.val = CurLen']_vars

\* C6 amended: truncate(i) with i >= committed() succeeds, leaves len() equal to
\* the smaller of i and the previous len(), and returns the new len().
C6_TruncateYieldsMin ==
    [][(last'.op = "truncate" /\ last'.idx >= CurCommitted) =>
            /\ last'.ok
            /\ CurLen' = Min(last'.idx, CurLen)
            /\ last'.val = CurLen']_vars

C6_Witness ==
    /\ last.op = "truncate"
    /\ last.ok
    /\ last.idx > CurLen
    /\ CurLen > CurCommitted
    /\ CurCommitted >= 1

\* C7: truncate(i) with i < committed() returns an error and leaves the whole
\* store unchanged.
C7_TruncateBelowCommittedFails ==
    [][(last'.op = "truncate" /\ last'.idx < CurCommitted) =>
            (~last'.ok /\ UNCHANGED <<mvars, hvars>>)]_vars

C7_Witness ==
    /\ last.op = "truncate"
    /\ ~last.ok
    /\ CurLen > CurCommitted
    /\ CurCommitted >= 2

\* C8: for every range, scan yields exactly the entries whose indexes lie in the
\* resolved [start, end] window within [1, len()], in ascending order.
C8_ScanYieldsWindow ==
    \A range \in Ranges : CurScan(range) = Window(ResolvedStart(range), ResolvedEnd(range))

\* C9: on Hybrid, size() = 4 * k + B for the k committed entries of B payload bytes.
C9_HybridSize ==
    backend = "hybrid" =>
        HybSize = 4 * HybCommitted + SumLen(SubSeq(hist_log, 1, HybCommitted))

C9_Witness ==
    /\ backend = "hybrid"
    /\ HybCommitted >= 2
    /\ Len(h_uncommitted) >= 1
    /\ SumLen(SubSeq(hist_log, 1, HybCommitted)) >= 2

\* C10 as stated: on every backend an append or a truncate that does not change
\* committed() leaves size() unchanged.
C10_SizeIgnoresUncommitted ==
    [][(last'.op \in { "append", "truncate" } /\ CurCommitted' = CurCommitted) =>
            CurSize' = CurSize]_vars

\* C10 amended: on Hybrid an append or a truncate leaves size() unchanged; on
\* Memory size() counts every entry of the log, so append(e) adds len(e) to it.
C10_HybridSizeIgnoresUncommitted ==
    /\ [][(backend = "hybrid" /\ last'.op \in { "append", "truncate" }) =>
                HybSize' = HybSize]_vars
    /\ [][(backend = "memory" /\ last'.op = "append") =>
                MemSize' = MemSize + Len(last'.bytes)]_vars

C10_Witness ==
    /\ backend = "hybrid"
    /\ last.op = "append"
    /\ Len(last.bytes) > 0
    /\ HybCommitted >= 1
    /\ HybSize > 0


\* a is a prefix of b, byte for byte.
IsPrefix(a, b) == Len(a) <= Len(b) /\ SubSeq(b, 1, Len(a)) = a

\* C11: get_metadata(k) returns exactly the value last set for k, and nothing for a
\* key never set, on both backends; on Hybrid also after the store was reopened.
C11_MetadataRoundTrip ==
    \A k \in MetaKeys :
        CurGetMetadata(k) = (IF k \in DOMAIN hist_meta THEN OkSome(hist_meta[k]) ELSE OkNone)

\* Two keys were set, one of them twice, and the Hybrid store was reopened.
C11_Witness ==
    /\ backend = "hybrid"
    /\ last.op = "new"
    /\ last.ok
    /\ DOMAIN hist_meta = MetaKeys
    /\ hist_meta[<<1>>] = <<9>>
    /\ hist_meta[<<2>>] = <<>>
    /\ HybGetMetadata(<<1>>) = OkSome(<<9>>)

\* C12: every step leaves the bytes the Hybrid log file held as a prefix of the bytes
\* it holds afterwards: nothing is rewritten and the file never shrinks.
C12_LogFileAppendOnly == [][IsPrefix(h_file, h_file')]_vars

\* A successful commit left three records in the file of a store whose metadata was set.
C12_Witness ==
    /\ backend = "hybrid"
    /\ last.op = "commit"
    /\ last.ok
    /\ HybCommitted = 3
    /\ Len(hist_log) = 3
    /\ hist_meta # <<>>
    /\ Len(h_file) = 12 + SumLen(hist_log)

\* C13: append returns Ok with the previous length plus one, get at that index returns
\* the appended entry, and the keys of the Hybrid offset index are 1 .. committed.
C13_ContiguousIndices ==
    /\ [](/\ last.op = "append" => (last.ok /\ last.val = CurLen
                                    /\ CurGet(last.val) = OkSome(last.bytes))
          /\ (backend = "hybrid" /\ h_open) => DOMAIN h_index = 1 .. HybCommitted)
    /\ [][last'.op = "append" => last'.val = CurLen + 1]_vars

\* An append on a Hybrid store with a committed record and an uncommitted entry.
C13_Witness ==
    /\ backend = "hybrid"
    /\ last.op = "append"
    /\ last.val = 3
    /\ HybCommitted = 1
    /\ DOMAIN h_index = { 1 }

\* C15: get(0) and get(i) for i > len are Ok(None); on Hybrid an index up to committed
\* is read from the log file at the place the offset index gives, and an index above it
\* is the element i - committed - 1 of the uncommitted queue.
C15_GetOutOfRangeAndSources ==
    /\ CurGet(0) = OkNone
    /\ \A i \in Indexes : i > CurLen => CurGet(i) = OkNone
    /\ (backend = "hybrid" /\ h_open) =>
          \A i \in 1 .. HybLen :
              IF i <= HybCommitted
              THEN HybGet(i) = OkSome(SubSeq(h_file, h_index[i][1] + 1,
                                             h_index[i][1] + h_index[i][2]))
              ELSE HybGet(i) = OkSome(h_uncommitted[i - HybCommitted])

\* A Hybrid store with a committed record, two uncommitted entries and an index beyond.
C15_Witness ==
    /\ backend = "hybrid"
    /\ HybCommitted = 1
    /\ HybLen = 3
    /\ HybGet(1) = OkSome(<<2, 3>>)
    /\ HybGet(3) = OkSome(<<1>>)
    /\ HybGet(4) = OkNone

\* C16: set_metadata leaves len, committed, size, every get and the log file as they
\* were; append, commit and truncate leave every get_metadata and the metadata file
\* as they were.
C16_MetadataIndependent ==
    [][/\ last'.op = "set_metadata" =>
            /\ CurLen' = CurLen
            /\ CurCommitted' = CurCommitted
            /\ CurSize' = CurSize
            /\ \A i \in Indexes : CurGet(i)' = CurGet(i)
            /\ h_file' = h_file
       /\ last'.op \in { "append", "commit", "truncate" } =>
            /\ \A k \in MetaKeys : CurGetMetadata(k)' = CurGetMetadata(k)
            /\ h_metadata_file' = h_metadata_file]_vars

\* set_metadata on a Hybrid store that has a committed record and an uncommitted entry.
C16_Witness ==
    /\ backend = "hybrid"
    /\ last.op = "set_metadata"
    /\ HybCommitted = 1
    /\ HybLen = 2
    /\ h_file # <<>>
    /\ h_metadata_file # <<>>

\* C17: for each i up to committed with index[i] = (pos, size), the four bytes before
\* pos encode size, the payload lies in the file, the next record's prefix starts at
\* pos + size and the last record ends at the end of the file; and build_index over
\* the file yields the index held in memory.
C17_IndexAgreesWithFile ==
    (backend = "hybrid" /\ h_open) =>
        /\ \A i \in 1 .. HybCommitted :
              LET pos == h_index[i][1]
                  size == h_index[i][2]
              IN  /\ pos >= 4
                  /\ SubSeq(h_file, pos - 3, pos) = BE32(size)
                  /\ pos + size <= Len(h_file)
                  /\ i < HybCommitted => h_index[i + 1][1] - 4 = pos + size
                  /\ i = HybCommitted => pos + size = Len(h_file)
        /\ build_index(h_file) = [ok |-> TRUE, index |-> h_index]

\* The file holds three records, of 2, 0 and 1 payload bytes.
C17_Witness ==
    /\ backend = "hybrid"
    /\ h_open
    /\ HybCommitted = 3
    /\ h_index[1][2] = 2
    /\ h_index[2][2] = 0
    /\ h_index[3][2] = 1
    /\ Len(h_file) = 15


\* The log file a crash left ends inside a record of the entries appended before it.
Torn == \A n \in 0 .. Len(hist_log) : h_file # Framed(Take(hist_log, n))

\* C14: when a crash lost every write not yet synced, the reopened store has at least
\* the entries committed Ok before the last sync of the log file, byte for byte: in
\* sync mode those of every commit that returned Ok, without it those committed before
\* the last clean shutdown.
C14_SyncedCommitsSurviveCrash ==
    [][(last.op = "crash" /\ last.ok /\ last'.op = "new") =>
            /\ last'.ok
            /\ HybCommitted' >= hist_durable
            /\ \A i \in 1 .. hist_durable : HybGet(i)' = OkSome(hist_log[i])]_vars

\* A store in sync mode was opened after a crash and holds two committed entries.
C14_Witness ==
    /\ hist_crashed
    /\ h_sync
    /\ last.op = "new"
    /\ last.ok
    /\ HybCommitted = 2
    /\ HybGet(1) = OkSome(<<2, 3>>)
    /\ HybGet(2) = OkSome(<<1>>)

\* C20: Hybrid::new on a log file that ends inside a record returns an error: no store
\* is open afterwards and no index was produced.
C20_TornTailFailsOpen ==
    [][(last.op = "crash" /\ Torn /\ last'.op = "new") =>
            /\ ~last'.ok
            /\ ~h_open'
            /\ h_index' = <<>>]_vars

\* Hybrid::new failed after a crash that left a whole record and a part of the next.
C20_Witness ==
    /\ hist_crashed
    /\ last.op = "new"
    /\ ~last.ok
    /\ ~h_open
    /\ Torn
    /\ Len(h_file) > 4 + Len(hist_log[1])


\* C18: a get of a committed index that was called while a Scan iterator over committed
\* entries is alive returns in the end.
C18_GetDuringScanCompletes ==
    (r_get.active /\ r_scan.active) ~> ~r_get.active

\* C19: commit owns the lock of the file from its seek until its flush is done, and
\* every get and every item of a scan that was read from the file is Ok and is the
\* whole entry appended at that index.
C19_NoPartialReads ==
    /\ w_commit.active => h_lock = "commit"
    /\ (last.op \in { "get", "scan_next" } /\ last.idx >= 1 /\ last.idx <= HybCommitted) =>
            /\ last.ok
            /\ last.val = 1
            /\ last.bytes = hist_log[last.idx]

\* A get waits for the lock with the place of a record that is in the BufWriter of a
\* commit and not yet in the file, which holds an earlier record.
C19_Witness ==
    /\ w_commit.active
    /\ h_lock = "commit"
    /\ r_get.active
    /\ r_get.pos + r_get.size > Len(h_file)
    /\ Len(h_file) > 0


\* C21: Hybrid::new on an empty metadata file returns a store with the empty map, and
\* on a metadata file that a crash cut short inside the serialized map it returns an
\* error.
C21_CutMetadataFailsOpen ==
    [][(last.op = "crash_metadata" /\ last'.op = "new") =>
            IF h_metadata_file = <<>>
            THEN last'.ok /\ h_metadata' = <<>>
            ELSE last.idx < last.val => ~last'.ok]_vars

\* C22: after a crash inside set_metadata that left less than the whole map in the
\* metadata file, Hybrid::new returns a store and get_metadata returns None for
\* every key.
C22_CrashInSetMetadataLosesAll ==
    [][(last.op = "crash_metadata" /\ last.idx < last.val /\ last'.op = "new") =>
            /\ last'.ok
            /\ \A k \in MetaKeys : HybGetMetadata(k)' = OkNone]_vars

\* A store opened after a crash has no metadata, while its metadata file holds the
\* count and a part of the pairs of a map of two keys that was being written.
C22_Witness ==
    /\ hist_crashed
    /\ last.op = "new"
    /\ last.ok
    /\ h_metadata = <<>>
    /\ Len(h_metadata_file) > 8
    /\ h_metadata_file[1] = 2


\* C25: a commit that returns Ok leaves len and every get(j) for j up to len as they
\* were and sets committed to its index; on Hybrid len is committed plus the length of
\* the queue before and after, and the commit takes index - committed entries off the
\* front of the queue and appends their records to the file in that order.
C25_CommitMovesBoundaryOnly ==
    [][(last'.op = "commit" /\ last'.ok) =>
            /\ CurLen' = CurLen
            /\ CurCommitted' = last'.idx
            /\ \A j \in 1 .. CurLen : CurGet(j)' = CurGet(j)
            /\ backend = "hybrid" =>
                  LET n == last'.idx - HybCommitted
                  IN  /\ HybLen = HybCommitted + Len(h_uncommitted)
                      /\ HybLen' = HybCommitted' + Len(h_uncommitted')
                      /\ h_uncommitted' = Skip(h_uncommitted, n)
                      /\ h_file' = h_file \o Framed(Take(h_uncommitted, n))]_vars

\* A commit on Hybrid returned Ok with two different entries in the file and one
\* left in the queue.
C25_Witness ==
    /\ backend = "hybrid"
    /\ last.op = "commit"
    /\ last.ok
    /\ last.idx = 2
    /\ HybCommitted = 2
    /\ Len(h_uncommitted) = 1
    /\ HybGet(1) # HybGet(2)


\* C26: a truncate that returns Ok leaves committed, the Hybrid log file and offset
\* index, and get(j) for every j up to the smaller of its index and the length before
\* as they were, and afterwards get(j) is None for every j above its index.
C26_TruncateKeepsPrefix ==
    [][(last'.op = "truncate" /\ last'.ok) =>
            /\ CurCommitted' = CurCommitted
            /\ h_file' = h_file
            /\ h_index' = h_index
            /\ \A j \in 1 .. Min(last'.idx, CurLen) : CurGet(j)' = CurGet(j)
            /\ \A j \in Indexes : j > last'.idx => CurGet(j)' = OkNone]_vars

\* A truncate on Hybrid removed an entry and kept a committed and an uncommitted one.
C26_Witness ==
    /\ backend = "hybrid"
    /\ last.op = "truncate"
    /\ last.ok
    /\ last.idx = 2
    /\ last.val = 2
    /\ HybCommitted = 1
    /\ Len(hist_log) = 2
    /\ HybGet(3) = OkNone

\* C29: the log file of an open Hybrid store is the records of the entries committed
\* so far, in their order and nothing else; right after a reopen the store holds
\* exactly these entries, its queue is empty and len equals committed; and an append
\* that follows a reopen returns committed + 1.
C29_ReopenCycles ==
    /\ []((backend = "hybrid" /\ h_open) =>
            /\ h_file = Framed(Take(hist_log, HybCommitted))
            /\ last.op = "new" =>
                  /\ last.ok
                  /\ h_uncommitted = <<>>
                  /\ HybLen = HybCommitted
                  /\ HybCommitted = hist_commit
                  /\ \A i \in 1 .. hist_commit : HybGet(i) = OkSome(hist_log[i]))
    /\ [][(backend = "hybrid" /\ last.op = "new" /\ last'.op = "append") =>
            last'.val = HybCommitted + 1]_vars

\* A store was reopened with three records in its file.
C29_Witness ==
    /\ backend = "hybrid"
    /\ last.op = "new"
    /\ last.ok
    /\ HybCommitted = 3
    /\ HybLen = 3
    /\ h_file = Framed(hist_log)


\* C28: for every range, with bounds up to the largest u64, whose start resolves to
\* more than its end (Excluded(n) as n + 1 at the start and, for n > 0, as n - 1 at
\* the end), scan yields nothing, on both backends and in every build.
C28_EmptyWhenStartAboveEnd ==
    \A range \in WideRanges, overflow_checks \in BOOLEAN :
        ResolvedStart(range) > ResolvedEnd(range) => CurScanBuild(range, overflow_checks) = <<>>


\* C27: the file of an open Hybrid store is, for each committed entry in order, the
\* big-endian encoding of the number of its bytes followed by these bytes, and the
\* offset index holds that number, also for an entry whose length does not fit in a u32.
C27_PrefixIsPayloadLength ==
    (backend = "hybrid" /\ h_open) =>
        /\ h_file = Framed(Take(hist_log, HybCommitted))
        /\ \A i \in 1 .. HybCommitted : h_index[i][2] = Len(hist_log[i])


\* C24: a Memory store and a Hybrid store that got the same calls agree: each call
\* returned the same on both, and len, committed, is_empty, get of every index,
\* get_metadata of every key and scan of every range return the same on both.
C24_MemoryIsBaseline ==
    /\ [][(backend = "hybrid" /\ backend' = "memory") => last' = last]_vars
    /\ [](backend = "memory" =>
            /\ HybLen = MemLen
            /\ HybCommitted = MemCommitted
            /\ (HybLen = 0) = (MemLen = 0)
            /\ \A index \in Indexes : HybGet(index) = MemGet(index)
            /\ \A key \in MetaKeys : HybGetMetadata(key) = MemGetMetadata(key)
            /\ \A range \in Ranges : HybScan(range) = MemScan(range))


\* C23: a call on a Hybrid store in which an operation on a file or the lock of the
\* Mutex fails returns Err to the caller and does not panic; this holds for commit
\* and get, and for scan, where the lock or the seek fails as the scan is created.
C23_FailuresPropagateAsErr ==
    [][(CommitFailStep \/ GetFailStep \/ ScanFailStep) =>
            (~last'.ok /\ last'.op # "panic")]_vars

\* C30: when commit returns Err on a Hybrid store whose Mutex is not poisoned,
\* committed() and len() are as before the call, the entries removed from the
\* uncommitted queue are on stable storage behind what the file held, and get(i)
\* returns Ok for every i up to committed().
C30_FailedCommitKeepsState ==
    [][(h_lock = "free" /\ last'.op = "commit" /\ ~last'.ok /\ backend = "hybrid") =>
            /\ HybCommitted' = HybCommitted
            /\ HybLen' = HybLen
            /\ IsPrefix(h_file \o Framed(Take(h_uncommitted,
                                              Len(h_uncommitted) - Len(h_uncommitted'))),
                        h_disk')
            /\ \A i \in 1 .. HybCommitted' : HybGet(i)'.ok]_vars


\* C32: append on Hybrid adds the entry to the uncommitted queue and leaves the log
\* file, what of it is on stable storage, the offset index, committed() and get(j)
\* of every existing j as they were.  A store that is dropped and opened again holds
\* the entries that were committed and no other.  A store opened after a crash holds
\* a prefix of the log as it was at the crash, and each entry it holds lies within
\* the bytes that a call of commit had written or was writing.  This is so with and
\* without sync mode.
C32_AppendTouchesQueueOnly ==
    /\ [][(last'.op = "append" /\ last' # last) =>
            /\ h_uncommitted' = Append(h_uncommitted, last'.bytes)
            /\ h_file' = h_file
            /\ h_disk' = h_disk
            /\ h_index' = h_index
            /\ HybCommitted' = HybCommitted
            /\ \A j \in 1 .. HybLen : HybGet(j)' = HybGet(j)]_vars
    /\ [][(h_open /\ last'.op = "new" /\ last'.ok) =>
            /\ HybLen' = HybCommitted
            /\ \A j \in 1 .. HybCommitted : HybGet(j)' = HybGet(j)]_vars
    /\ [][(last.op = "crash" /\ last'.op = "new" /\ last'.ok) =>
            /\ HybLen' = HybCommitted'
            /\ HybLen' <= Len(hist_log)
            /\ \A j \in 1 .. HybLen' : HybGet(j)' = OkSome(hist_log[j])
            /\ Len(Framed(Take(hist_log, HybLen'))) <= last.val]_vars

\* A store without sync mode crashed between two calls with one entry committed and
\* on stable storage and one entry appended that no commit covered.
C32_Witness ==
    /\ ~h_sync
    /\ ~h_open
    /\ last.op = "crash"
    /\ hist_commit = 1
    /\ Len(hist_log) = 2
    /\ Len(Framed(hist_log)) > last.val
    /\ h_file = Framed(Take(hist_log, 1))


\* C31: after a call of set_metadata on Hybrid the map in memory is what the
\* metadata file decodes to.  When the call returned Ok, the file decodes to the
\* whole map; when it returned Err, get_metadata(k) returns no value other than
\* the one the decoded file holds for k.
C31_MetadataMapMatchesFile ==
    (backend = "hybrid" /\ h_open /\ last.op = "set_metadata") =>
        LET metadata == load_metadata(h_metadata_file)
        IN  IF last.ok THEN metadata.ok /\ metadata.map = h_metadata
            ELSE \A key \in MetaKeys :
                    HybGetMetadata(key) # OkNone =>
                        /\ metadata.ok
                        /\ key \in DOMAIN metadata.map
                        /\ HybGetMetadata(key) = OkSome(metadata.map[key])

====
